---- MODULE Spec2Model ----
(***************************************************************************)
(* Model of strava2gpx.py: the Strava2GPX client object, its token         *)
(* refresh, the paginated activity lister, the stream fetcher and the GPX  *)
(* export (write_to_gpx).  The Strava API is the environment: each request *)
(* the code sends is answered by a response drawn from a small set.        *)
(***************************************************************************)
EXTENDS Integers, Sequences, FiniteSets, TLC

\* ------------------------------------------------------------------ bounds
\* largest channel length the streams endpoint serves
MaxN == 2
\* how many channels of one streams response may deviate from the nominal length
MaxMismatch == 1
\* the list endpoint serves non-empty pages only up to this page number
MaxPages == 2
\* largest number of items on one served page
MaxItems == 2

\* --------------------------------------------------------------- constants
None == "None"
Tokens == {"tokA", "tokB"}
ActivityIds == {1}

\* self.streams keys, in dict order
StreamKeys == <<"latlng", "altitude", "heartrate", "cadence", "watts", "temp">>
Optional == {"heartrate", "cadence", "watts", "temp"}

VARIABLES
    access_token,     \* self.access_token: None or a token
    activities_list,  \* self.activities_list: <<>> (None) or <<masterlist>>
    streams,          \* self.streams: channel -> 0/1
    file,             \* contents of "<output>.gpx": sequence of written fragments
    op,               \* the public coroutine in progress
    pc,               \* its position
    activity,         \* write_to_gpx local: the activity detail
    data_streams,     \* write_to_gpx local: <<>> or <<streams response>>
    trkpts,           \* write_to_gpx local: the list of body fragments
    page,             \* get_activities_list local
    activities,       \* get_activities_list local: the last page received
    masterlist,       \* get_activities_list local
    calls,            \* requests sent by the coroutine in progress, in order
    token_resp,       \* the token endpoint's answer to it, if it asked
    served,           \* pages the list endpoint served to it, in order
    outcome,          \* "none" | "returned" | "raised"
    retval,           \* <<>> or <<returned value>>
    printed           \* last message printed by write_to_gpx

vars == <<access_token, activities_list, streams, file, op, pc, activity,
          data_streams, trkpts, page, activities, masterlist, calls,
          token_resp, served, outcome, retval, printed>>

persistent == <<access_token, activities_list, streams, file>>
listLocals == <<page, activities, masterlist, served>>
exportLocals == <<activity, data_streams, trkpts, printed>>

\* ------------------------------------------------------------ environment
Request(endpoint, token, pg, keys) ==
    [endpoint |-> endpoint, token |-> token, page |-> pg, keys |-> keys]

\* A rejected request (HTTP error status) or a transport error: both are
\* aiohttp.ClientError and both are possible for every request.
Failures == {"http_error", "network_error"}

\* The token endpoint: a token, a payload without access_token, or a failure.
NoTokenResponse == [kind |-> "none", token |-> None]

TokenResponses ==
    {[kind |-> "ok", token |-> t] : t \in Tokens}
        \cup {[kind |-> "missing", token |-> None]}
        \cup {[kind |-> f, token |-> None] : f \in Failures}

\* The API authorises a request only if it carries a token.
Authorised(token) == token # None

\* One item of the list endpoint: the item at position j of page p.
Item(p, j) ==
    [name |-> "ride", id |-> (p - 1) * MaxItems + j,
     start_date |-> [t |-> 0, suffix |-> <<"Z">>], type |-> "Ride",
     distance |-> 1000]

ServedPage(p, n) == [j \in 1..n |-> Item(p, j)]

\* Sizes the list endpoint may serve for page p.
PageSizes(p) == IF p <= MaxPages THEN 0..MaxItems ELSE {0}

\* Activity details the detail endpoint may serve for an id. has_heartrate is
\* always there and boolean; device_watts, average_cadence and average_temp
\* are there or not (`keys`), device_watts with a boolean value. start_date
\* is an ISO-8601 string: seconds t and the suffix after them, none or "Z"
\* (parsed as UTC by datetime.fromisoformat).
StartSuffixes == {<<>>, <<"Z">>}

Details(id) ==
    {d \in [id : {id}, name : {"ride"}, type : {"Ride"},
            start_date : [t : {100}, suffix : StartSuffixes],
            has_heartrate : BOOLEAN,
            keys : SUBSET {"device_watts", "average_cadence", "average_temp"},
            device_watts : BOOLEAN]
        : d.device_watts => "device_watts" \in d.keys}

NoActivity ==
    [id |-> 0, name |-> "", type |-> "",
     start_date |-> [t |-> 0, suffix |-> <<>>],
     has_heartrate |-> FALSE, keys |-> {}, device_watts |-> FALSE]

\* Sample i (0-based) of a channel; latlng samples are [lat, lon] pairs.
Sample(c, i) ==
    CASE c = "time"      -> 5 * i
      [] c = "latlng"    -> <<10 + i, 20 + i>>
      [] c = "altitude"  -> 100 + i
      [] c = "heartrate" -> 60 + i
      [] c = "cadence"   -> 80 + i
      [] c = "watts"     -> 200 + i
      [] c = "temp"      -> 30 + i

Channel(c, n) ==
    [original_size |-> n, data |-> [k \in 1..n |-> Sample(c, k - 1)]]

\* Streams responses (key_by_type=true) for a requested key list: the
\* channels served are among the requested ones, original_size counting the
\* samples of each; every channel has the nominal length n except for at
\* most MaxMismatch of them, which are missing (-1) or of another length.
StreamResponses(keys) ==
    LET req == {keys[k] : k \in DOMAIN keys}
    IN  UNION { UNION { { [c \in (req \ {d \in D : dev[d] = -1}) |->
                              Channel(c, IF c \in D THEN dev[c] ELSE n)]
                          : dev \in [D -> ((-1)..MaxN) \ {n}] }
                        : D \in {S \in SUBSET req : Cardinality(S) <= MaxMismatch} }
                : n \in 0..MaxN }

\* ------------------------------------------------------- pure code paths
refresh_keeps_held_token(resp, old) ==
    IF resp.kind \in Failures \/ resp.token = None
    THEN [raised |-> TRUE, access_token |-> old, ret |-> <<>>]
    ELSE IF old # None
         THEN [raised |-> FALSE, access_token |-> old, ret |-> <<old>>]
         ELSE [raised |-> FALSE, access_token |-> resp.token, ret |-> <<resp.token>>]

\* refresh_access_token, given the token endpoint's response and the stored
\* token: whether it raises, the stored token afterwards, the value returned.
refresh_access_token(resp, old) ==
    IF resp.kind \in Failures
    THEN [raised |-> TRUE, access_token |-> old, ret |-> <<>>]
    ELSE LET token == resp.token    \* data.get("access_token")
         IN  IF token = None
             THEN [raised |-> TRUE, access_token |-> old, ret |-> <<>>]
             ELSE [raised |-> FALSE, access_token |-> token, ret |-> <<token>>]

\* [name, id, start_date, type] of one listed activity
Project(a) == <<a.name, a.id, a.start_date, a.type>>

ProjectAll(as) == [k \in DOMAIN as |-> Project(as[k])]

\* the while condition of get_activities_list
ContinuePaging(as) == Len(as) # 0

NextPage_skipping(p) == p + 2

\* page += 1
NextPage(p) == p + 1

detect_never_clearing(s, a) ==
    [s EXCEPT
        !["watts"] = IF "device_watts" \in a.keys /\ a.device_watts THEN 1 ELSE @,
        !["heartrate"] = IF a.has_heartrate = TRUE THEN 1 ELSE @,
        !["cadence"] = IF "average_cadence" \in a.keys THEN 1 ELSE @,
        !["temp"] = IF "average_temp" \in a.keys THEN 1 ELSE @]

\* lines 232-248
detect_activity_streams(s, a) ==
    [s EXCEPT
        !["watts"] = IF "device_watts" \in a.keys /\ a.device_watts THEN 1 ELSE 0,
        !["heartrate"] = IF a.has_heartrate = TRUE THEN 1 ELSE 0,
        !["cadence"] = IF "average_cadence" \in a.keys THEN 1 ELSE 0,
        !["temp"] = IF "average_temp" \in a.keys THEN 1 ELSE 0]

\* query_params of get_data_stream: 'time' plus every key whose value is 1
QueryParams(s) == <<"time">> \o SelectSeq(StreamKeys, LAMBDA k : s[k] = 1)

\* add_seconds_to_timestamp: parse, add, isoformat, append "Z", drop "+00:00"
add_seconds_to_timestamp(start, seconds) ==
    LET aware == start.suffix # <<>>
        iso == [t |-> start.t + seconds,
                suffix |-> IF aware THEN <<"+00:00">> ELSE <<>>]
        withZ == Append(iso.suffix, "Z")
    IN  [t |-> iso.t, suffix |-> SelectSeq(withZ, LAMBDA x : x # "+00:00")]

\* f"{float(x):.<d>f}" of an integral sample
Fmt(x, d) == [value |-> x, decimals |-> d]

Header(a) == <<"header", a.start_date, a.name, a.type>>
Footer == <<"footer">>

WriteHeader_appending(f, h) == Append(f, h)

\* open(..., 'w') then write: the file is truncated to the header
WriteHeader(f, h) == <<h>>

\* open(..., 'a') then the two writes
AppendBody(f, body, end) == f \o body \o <<end>>

SizeMismatch_unchecked(ds) == FALSE

\* line 284
SizeMismatch(ds) == ds["latlng"].original_size # ds["time"].original_size

LoopRange_from_one(ds) == 1..(ds["time"].original_size - 1)

\* range(data_streams['time']['original_size'])
LoopRange(ds) == 0..(ds["time"].original_size - 1)

Extensions_hr_first(s, ds, i) ==
    (IF s["heartrate"] = 1 THEN << <<"hr", ds["heartrate"].data[i + 1]>> >> ELSE <<>>)
    \o (IF s["temp"] = 1 THEN << <<"atemp", ds["temp"].data[i + 1]>> >> ELSE <<>>)
    \o (IF s["watts"] = 1 THEN << <<"watts", ds["watts"].data[i + 1]>> >> ELSE <<>>)
    \o (IF s["cadence"] = 1 THEN << <<"cad", ds["cadence"].data[i + 1]>> >> ELSE <<>>)

\* the extension fragments of waypoint i, in the order of lines 300-316
Extensions(s, ds, i) ==
    (IF s["temp"] = 1 THEN << <<"atemp", ds["temp"].data[i + 1]>> >> ELSE <<>>)
    \o (IF s["watts"] = 1 THEN << <<"watts", ds["watts"].data[i + 1]>> >> ELSE <<>>)
    \o (IF s["heartrate"] = 1 THEN << <<"hr", ds["heartrate"].data[i + 1]>> >> ELSE <<>>)
    \o (IF s["cadence"] = 1 THEN << <<"cad", ds["cadence"].data[i + 1]>> >> ELSE <<>>)

\* the fragments appended to trkpts by iteration i of the loop
Trkpt(a, s, ds, i) ==
    << <<"trkpt",
         Fmt(ds["latlng"].data[i + 1][1], 7), Fmt(ds["latlng"].data[i + 1][2], 7),
         Fmt(ds["altitude"].data[i + 1], 1),
         add_seconds_to_timestamp(a.start_date, ds["time"].data[i + 1])>> >>
    \o Extensions(s, ds, i)
    \o << <<"/trkpt">> >>

\* channels the loop body indexes
Indexed(s) == {"time", "latlng", "altitude"} \cup {c \in Optional : s[c] = 1}

\* some iteration raises KeyError (channel missing) or IndexError (too short)
LoopRaises(s, ds) ==
    \E i \in LoopRange(ds) : \E c \in Indexed(s) :
        c \notin DOMAIN ds \/ i + 1 > Len(ds[c].data)

RECURSIVE Concat(_, _, _, _)
Concat(a, s, ds, R) ==
    IF R = {} THEN <<>>
    ELSE LET m == CHOOSE x \in R : \A y \in R : y <= x
         IN  Concat(a, s, ds, R \ {m}) \o Trkpt(a, s, ds, m)

BuildTrkpts(a, s, ds) == Concat(a, s, ds, LoopRange(ds))

\* lines 284-321: "KeyError" | "mismatch" | "error" | "built"
BuildOutcome(s, ds) ==
    IF "latlng" \notin DOMAIN ds \/ "time" \notin DOMAIN ds THEN "KeyError"
    ELSE IF SizeMismatch(ds) THEN "mismatch"
    ELSE IF LoopRaises(s, ds) THEN "error"
    ELSE "built"

\* ------------------------------------------------------------------ state
Init ==
    /\ access_token = None
    /\ activities_list = <<>>
    /\ streams = [k \in {StreamKeys[j] : j \in DOMAIN StreamKeys} |->
                     IF k \in {"latlng", "altitude"} THEN 1 ELSE 0]
    /\ file = <<>>
    /\ op = "none"
    /\ pc = "idle"
    /\ activity = NoActivity
    /\ data_streams = <<>>
    /\ trkpts = <<>>
    /\ page = 0
    /\ activities = <<>>
    /\ masterlist = <<>>
    /\ calls = <<>>
    /\ token_resp = NoTokenResponse
    /\ served = <<>>
    /\ outcome = "none"
    /\ retval = <<>>
    /\ printed = "none"

Finish(how, value) ==
    /\ pc' = "done"
    /\ outcome' = how
    /\ retval' = value

\* connect(): self.access_token = await self.refresh_access_token()
Connect ==
    /\ pc = "idle"
    /\ op' = "connect"
    /\ \E r \in TokenResponses :
        LET res == refresh_access_token(r, access_token)
        IN  /\ calls' = <<Request("token", None, 0, <<>>)>>
            /\ token_resp' = r
            /\ access_token' = res.access_token
            /\ Finish(IF res.raised THEN "raised" ELSE "returned", <<>>)
    /\ UNCHANGED <<activities_list, streams, file, listLocals, exportLocals>>

\* refresh_access_token() called by the application
RefreshAccessToken ==
    /\ pc = "idle"
    /\ op' = "refresh"
    /\ \E r \in TokenResponses :
        LET res == refresh_access_token(r, access_token)
        IN  /\ calls' = <<Request("token", None, 0, <<>>)>>
            /\ token_resp' = r
            /\ access_token' = res.access_token
            /\ Finish(IF res.raised THEN "raised" ELSE "returned", res.ret)
    /\ UNCHANGED <<activities_list, streams, file, listLocals, exportLocals>>

\* get_strava_activities(p) as awaited by get_activities_list, followed by
\* the list comprehension that extends `base`
GetStravaActivities(p, base) ==
    LET lazy == access_token = None      \* if not self.access_token
    IN  \E r \in (IF lazy THEN TokenResponses
                  ELSE {[kind |-> "ok", token |-> access_token]}) :
        LET res == IF lazy THEN refresh_access_token(r, access_token)
                   ELSE [raised |-> FALSE, access_token |-> access_token, ret |-> <<>>]
            pre == IF lazy THEN <<Request("token", None, 0, <<>>)>> ELSE <<>>
        IN  /\ page' = p
            /\ token_resp' = IF lazy THEN r ELSE token_resp
            /\ access_token' = res.access_token
            /\ IF res.raised
               THEN /\ calls' = calls \o pre
                    /\ Finish("raised", <<>>)
                    /\ UNCHANGED <<activities, masterlist, served>>
               ELSE /\ calls' = calls \o pre
                              \o <<Request("activities", res.access_token, p, <<>>)>>
                    /\ \E k \in {"ok"} \cup Failures :
                        IF k = "ok"
                        THEN \E n \in PageSizes(p) :
                                /\ activities' = ServedPage(p, n)
                                /\ served' = Append(served, ServedPage(p, n))
                                /\ masterlist' = base \o ProjectAll(ServedPage(p, n))
                                /\ pc' = "list_loop"
                                /\ UNCHANGED <<outcome, retval>>
                        ELSE /\ Finish("raised", <<>>)
                             /\ UNCHANGED <<activities, masterlist, served>>

\* get_activities_list(), lines 42-45
ListFirstPage ==
    /\ pc = "idle"
    /\ op' = "list"
    /\ GetStravaActivities(1, <<>>)
    /\ UNCHANGED <<activities_list, streams, file, exportLocals>>

\* one iteration of the while loop, lines 46-50
ListNextPage ==
    /\ pc = "list_loop"
    /\ ContinuePaging(activities)
    /\ GetStravaActivities(NextPage(page), masterlist)
    /\ UNCHANGED <<activities_list, streams, file, op, exportLocals>>

\* lines 51-52
ListReturn ==
    /\ pc = "list_loop"
    /\ ~ContinuePaging(activities)
    /\ activities_list' = <<masterlist>>
    /\ Finish("returned", <<masterlist>>)
    /\ UNCHANGED <<access_token, streams, file, op, listLocals, exportLocals,
                   calls, token_resp>>

\* the streams request of get_data_stream and its answers
StreamsRequest(s) == Request("streams", access_token, 0, QueryParams(s))

StreamsAnswers(s) ==
    (IF Authorised(access_token)
     THEN {[kind |-> "ok", data |-> ds] : ds \in StreamResponses(QueryParams(s))}
     ELSE {})
    \cup {[kind |-> f, data |-> <<>>] : f \in Failures}

\* get_data_stream(activity_id) called by the application
GetDataStream ==
    /\ pc = "idle"
    /\ op' = "streams"
    /\ \E id \in ActivityIds :
        /\ calls' = <<StreamsRequest(streams)>>
        /\ \E ans \in StreamsAnswers(streams) :
            IF ans.kind = "ok"
            THEN Finish("returned", <<ans.data>>)
            ELSE Finish("raised", <<>>)
    /\ UNCHANGED <<persistent, listLocals, exportLocals, token_resp>>

\* write_to_gpx, line 258: get_strava_activity, outside the try block
ExportGetActivity ==
    /\ pc = "idle"
    /\ op' = "export"
    /\ \E id \in ActivityIds :
        /\ calls' = <<Request("activity", access_token, 0, <<>>)>>
        /\ \/ /\ Authorised(access_token)
              /\ \E d \in Details(id) : activity' = d
              /\ pc' = "export_header"
              /\ UNCHANGED <<outcome, retval>>
           \/ /\ \E f \in Failures : Finish("raised", <<>>)
              /\ UNCHANGED activity
    /\ UNCHANGED <<persistent, listLocals, data_streams, trkpts, printed,
                   token_resp>>

\* lines 277-278
ExportWriteHeader ==
    /\ pc = "export_header"
    /\ file' = WriteHeader(file, Header(activity))
    /\ pc' = "export_streams"
    /\ UNCHANGED <<access_token, activities_list, streams, op, listLocals,
                   exportLocals, calls, token_resp, outcome, retval>>

\* lines 281-282, and the except clause for a failed fetch
ExportGetStreams ==
    /\ pc = "export_streams"
    /\ streams' = detect_activity_streams(streams, activity)
    /\ calls' = Append(calls, StreamsRequest(streams'))
    /\ \E ans \in StreamsAnswers(streams') :
        IF ans.kind = "ok"
        THEN /\ data_streams' = <<ans.data>>
             /\ pc' = "export_build"
             /\ UNCHANGED <<outcome, retval, printed>>
        ELSE /\ printed' = "error"
             /\ Finish("returned", <<>>)
             /\ UNCHANGED data_streams
    /\ UNCHANGED <<access_token, activities_list, file, op, listLocals,
                   activity, trkpts, token_resp>>

\* lines 284-321
ExportBuild ==
    /\ pc = "export_build"
    /\ LET ds == data_streams[1]
           how == BuildOutcome(streams, ds)
       IN  \/ /\ how = "built"
              /\ trkpts' = BuildTrkpts(activity, streams, ds)
              /\ pc' = "export_append"
              /\ UNCHANGED <<outcome, retval, printed>>
           \/ /\ how = "mismatch"
              /\ printed' = "mismatch"
              /\ Finish("returned", <<>>)
              /\ UNCHANGED trkpts
           \/ /\ how \in {"KeyError", "error"}
              /\ printed' = "error"
              /\ Finish("returned", <<>>)
              /\ UNCHANGED trkpts
    /\ UNCHANGED <<persistent, op, listLocals, activity, data_streams, calls,
                   token_resp>>

\* lines 323-327
ExportAppend ==
    /\ pc = "export_append"
    /\ file' = AppendBody(file, trkpts, Footer)
    /\ printed' = "saved"
    /\ Finish("returned", <<>>)
    /\ UNCHANGED <<access_token, activities_list, streams, op, listLocals,
                   activity, data_streams, trkpts, calls, token_resp>>

\* the coroutine has ended; its locals are gone
Return ==
    /\ pc = "done"
    /\ pc' = "idle"
    /\ op' = "none"
    /\ activity' = NoActivity
    /\ data_streams' = <<>>
    /\ trkpts' = <<>>
    /\ page' = 0
    /\ activities' = <<>>
    /\ masterlist' = <<>>
    /\ calls' = <<>>
    /\ token_resp' = NoTokenResponse
    /\ served' = <<>>
    /\ outcome' = "none"
    /\ retval' = <<>>
    /\ printed' = "none"
    /\ UNCHANGED persistent

Next ==
    \/ Connect
    \/ RefreshAccessToken
    \/ ListFirstPage
    \/ ListNextPage
    \/ ListReturn
    \/ GetDataStream
    \/ ExportGetActivity
    \/ ExportWriteHeader
    \/ ExportGetStreams
    \/ ExportBuild
    \/ ExportAppend
    \/ Return

Spec == Init /\ [][Next]_vars

\* The lister and the export share only the access token: the lister never
\* touches self.streams or the file, the export never self.activities_list.
\* The token manager and the lister on their own:
NextList ==
    \/ Connect
    \/ RefreshAccessToken
    \/ ListFirstPage
    \/ ListNextPage
    \/ ListReturn
    \/ Return

SpecList == Init /\ [][NextList]_vars

\* The token manager, the stream fetcher and the export on their own:
NextExport ==
    \/ Connect
    \/ GetDataStream
    \/ ExportGetActivity
    \/ ExportWriteHeader
    \/ ExportGetStreams
    \/ ExportBuild
    \/ ExportAppend
    \/ Return

SpecExport == Init /\ [][NextExport]_vars

\* -------------------------------------------------------------- properties
ExportDone == op = "export" /\ pc = "done"

\* write_to_gpx has received a streams response
Fetched == op = "export" /\ Len(data_streams) = 1

Has(c) == c \in DOMAIN data_streams[1]

Size(c) == data_streams[1][c].original_size

Enabled == {"latlng", "altitude"} \cup {c \in Optional : streams[c] = 1}

Waypoints(f) == SelectSeq(f, LAMBDA x : x[1] = "trkpt")

HeaderOnly == file = <<Header(activity)>>

LatLngVsTime(rel(_, _)) ==
    Fetched /\ Has("latlng") /\ Has("time") /\ rel(Size("latlng"), Size("time"))

Differ(a, b) == a # b

Same(a, b) == a = b

\* C1: when the streams response has latlng.original_size different from
\* time.original_size, the export never reaches the append of body and
\* footer: it prints the mismatch error, returns, and the file holds exactly
\* the header (no waypoint).
C1_MismatchAborts ==
    LatLngVsTime(Differ) =>
        /\ pc \in {"export_build", "done"}
        /\ HeaderOnly
        /\ Len(Waypoints(file)) = 0
        /\ pc = "done" => outcome = "returned" /\ printed = "mismatch"

C1_Witness ==
    /\ ExportDone
    /\ LatLngVsTime(Differ)
    /\ Size("latlng") > Size("time")
    /\ \A c \in Enabled : Has(c) /\ Size(c) >= Size("time")
    /\ printed = "mismatch"

\* the file holds the header, exactly n waypoints and the footer, and the
\* i-th waypoint carries sample i of latlng, altitude and time
WritesAll(n) ==
    /\ Len(file) >= 2
    /\ file[1] = Header(activity)
    /\ file[Len(file)] = Footer
    /\ Len(Waypoints(file)) = n
    /\ \A i \in 0..(n - 1) :
        LET w == Waypoints(file)[i + 1]
            ds == data_streams[1]
        IN  /\ w[2] = [value |-> ds["latlng"].data[i + 1][1], decimals |-> 7]
            /\ w[3] = [value |-> ds["latlng"].data[i + 1][2], decimals |-> 7]
            /\ w[4] = [value |-> ds["altitude"].data[i + 1], decimals |-> 1]
            /\ w[5] = [t |-> activity.start_date.t + ds["time"].data[i + 1],
                       suffix |-> <<"Z">>]

\* C2, as stated: every streams response with latlng.original_size =
\* time.original_size = N makes the export write exactly N waypoints, in
\* index order, followed by the footer.
C2_AsStated ==
    (ExportDone /\ LatLngVsTime(Same)) => WritesAll(Size("time"))

\* C2, amended: the same, for the responses in which time, latlng, altitude
\* and every enabled optional channel are present with at least N samples.
C2_EmitsN ==
    (/\ ExportDone
     /\ LatLngVsTime(Same)
     /\ \A c \in {"time"} \cup Enabled :
            Has(c) /\ Len(data_streams[1][c].data) >= Size("time"))
        => /\ WritesAll(Size("time"))
           /\ printed = "saved"
           /\ outcome = "returned"

C2_Witness ==
    /\ ExportDone
    /\ LatLngVsTime(Same)
    /\ Size("time") >= 2
    /\ \A c \in Enabled : Has(c) /\ Len(data_streams[1][c].data) >= Size("time")
    /\ streams["heartrate"] = 1
    /\ printed = "saved"

\* C3: whenever an enabled channel's original_size differs from time's, the
\* export aborts: it never appends a body, and ends with the file holding
\* only the header.
C3_AllChannelsChecked ==
    (/\ Fetched
     /\ Has("time")
     /\ \E c \in Enabled : Has(c) /\ Size(c) # Size("time"))
        => /\ pc # "export_append"
           /\ pc = "done" => HeaderOnly /\ printed # "saved"

\* the element names one waypoint must carry, given the selection
ExpectedTags ==
    <<"trkpt">>
    \o (IF streams["temp"] = 1 THEN <<"atemp">> ELSE <<>>)
    \o (IF streams["watts"] = 1 THEN <<"watts">> ELSE <<>>)
    \o (IF streams["heartrate"] = 1 THEN <<"hr">> ELSE <<>>)
    \o (IF streams["cadence"] = 1 THEN <<"cad">> ELSE <<>>)
    \o <<"/trkpt">>

ChannelOf(tag) ==
    CASE tag = "atemp" -> "temp"
      [] tag = "watts" -> "watts"
      [] tag = "hr"    -> "heartrate"
      [] tag = "cad"   -> "cadence"

\* C4: in every state the waypoints in the file each carry their extension
\* elements in the order temperature, power, heart rate, cadence, an element
\* being there iff its channel is enabled in self.streams; when the export
\* that wrote them ends, each element holds sample i of its channel.
C4_ExtensionOrder ==
    Len(file) >= 2 =>
        LET body == SubSeq(file, 2, Len(file) - 1)
            w == Len(ExpectedTags)
        IN  /\ file[Len(file)] = Footer
            /\ Len(body) % w = 0
            /\ \A k \in DOMAIN body :
                /\ body[k][1] = ExpectedTags[((k - 1) % w) + 1]
                /\ (/\ ExportDone /\ printed = "saved"
                    /\ body[k][1] \in {"atemp", "watts", "hr", "cad"})
                    => body[k][2] =
                         data_streams[1][ChannelOf(body[k][1])].data[((k - 1) \div w) + 1]

C4_Witness ==
    /\ ExportDone
    /\ printed = "saved"
    /\ Len(Waypoints(file)) >= 2
    /\ streams["heartrate"] = 1 /\ streams["cadence"] = 1
    /\ streams["temp"] = 0 /\ streams["watts"] = 0

PageCalls == SelectSeq(calls, LAMBDA c : c.endpoint = "activities")

RECURSIVE Summaries(_)
Summaries(pages) ==
    IF pages = <<>> THEN <<>>
    ELSE Summaries(SubSeq(pages, 1, Len(pages) - 1))
         \o [j \in DOMAIN pages[Len(pages)] |->
                LET a == pages[Len(pages)][j]
                IN  <<a.name, a.id, a.start_date, a.type>>]

\* C5: the lister requests pages 1, 2, 3, ... in increasing order, never
\* after an empty page; when it returns, pages 1..k were non-empty, page k+1
\* was empty, exactly k+1 page requests were sent, and the value returned
\* (and stored) is the summaries of pages 1..k in page order.
C5_Pagination ==
    op = "list" =>
        /\ \A j \in DOMAIN PageCalls : PageCalls[j].page = j
        /\ Len(served) <= Len(PageCalls)
        /\ Len(PageCalls) <= Len(served) + 1
        /\ \A j \in DOMAIN served : Len(served[j]) = 0 => j = Len(PageCalls)
        /\ (pc = "done" /\ outcome = "returned") =>
            /\ Len(served) >= 1
            /\ Len(PageCalls) = Len(served)
            /\ Len(served[Len(served)]) = 0
            /\ \A j \in 1..(Len(served) - 1) : Len(served[j]) > 0
            /\ retval = <<Summaries(served)>>
            /\ activities_list = retval

C5_Witness ==
    /\ op = "list" /\ pc = "done" /\ outcome = "returned"
    /\ Len(PageCalls) = 3
    /\ Len(served[1]) = 2 /\ Len(served[2]) = 1
    /\ Len(retval[1]) = 3

\* C6: no streams request is sent without an access token.
C6_StreamsRequestHasToken ==
    \A k \in DOMAIN calls :
        calls[k].endpoint = "streams" => calls[k].token # None

\* C7: write_to_gpx never ends by raising to its caller.
C7_ExportNeverRaises == ExportDone => outcome = "returned"

\* C8: a refresh_access_token call either raises and leaves the stored token
\* as it was (the request failed or the payload has no access_token), or
\* stores the token of the response in place of whatever was stored and
\* returns it.
C8_RefreshOutcomes ==
    [][(pc = "idle" /\ op' = "refresh") =>
        /\ pc' = "done"
        /\ token_resp' \in TokenResponses
        /\ IF token_resp'.kind = "ok"
           THEN /\ outcome' = "returned"
                /\ access_token' = token_resp'.token
                /\ retval' = <<token_resp'.token>>
           ELSE /\ outcome' = "raised"
                /\ access_token' = access_token]_vars

C8_Witness ==
    /\ op = "refresh" /\ pc = "done" /\ outcome = "returned"
    /\ token_resp.kind = "ok"
    /\ access_token = "tokB"
    /\ retval = <<"tokB">>

\* the request for the streams of the activity has been sent
StreamsRequested ==
    op = "export" /\ \E k \in DOMAIN calls : calls[k].endpoint = "streams"

Flag(b) == IF b THEN 1 ELSE 0

\* C9: latlng and altitude are enabled in every state, and whenever an
\* export has requested streams the selection is the one its own activity
\* detail gives: watts iff device_watts is true, heartrate iff has_heartrate,
\* cadence iff average_cadence is present, temp iff average_temp is present;
\* the request asks for time and exactly the enabled channels.
C9_SelectionFromDetail ==
    /\ streams["latlng"] = 1
    /\ streams["altitude"] = 1
    /\ StreamsRequested =>
        /\ streams["watts"] =
             Flag("device_watts" \in activity.keys /\ activity.device_watts)
        /\ streams["heartrate"] = Flag(activity.has_heartrate)
        /\ streams["cadence"] = Flag("average_cadence" \in activity.keys)
        /\ streams["temp"] = Flag("average_temp" \in activity.keys)
        /\ LET keys == calls[Len(calls)].keys
           IN  {keys[k] : k \in DOMAIN keys} = {"time"} \cup Enabled

C9_Witness ==
    /\ ExportDone
    /\ StreamsRequested
    /\ printed = "saved"
    /\ file # <<>>
    /\ streams["watts"] = 1 /\ streams["cadence"] = 1
    /\ streams["heartrate"] = 0 /\ streams["temp"] = 0
    /\ "device_watts" \in activity.keys /\ ~activity.has_heartrate

\* C10: from the header write on the file is exactly the header until the
\* export ends; the streams request is sent with the header already written;
\* the export ends with the header alone unless it printed success, and then
\* with the header, every built fragment and the footer.
C10_TwoPhases ==
    op = "export" =>
        /\ pc \in {"export_streams", "export_build", "export_append"} => HeaderOnly
        /\ StreamsRequested => Len(file) >= 1 /\ file[1] = Header(activity)
        /\ (pc = "done" /\ outcome = "returned") =>
            IF printed = "saved"
            THEN /\ file = <<Header(activity)>> \o trkpts \o <<Footer>>
                 /\ Len(Waypoints(file)) = Size("time")
            ELSE HeaderOnly

C10_Witness ==
    /\ ExportDone
    /\ Fetched
    /\ printed = "error"
    /\ HeaderOnly

====
